---- MODULE Spec2Model ----
(***************************************************************************)
(* Model of src/app/components/CandlestickChart.tsx: the CandlestickChart  *)
(* React component (market data query, chart/indicator effect, live-feed   *)
(* WebSocket effect) and its pure indicator computations.                  *)
(***************************************************************************)
EXTENDS Integers, Sequences, FiniteSets, TLC

(***************************************************************************)
(* JavaScript numbers.  A number is a reduced fraction [n, d] with d >= 0;  *)
(* d = 0 encodes the non-finite values a division can produce:             *)
(*   [1, 0] = Infinity, [-1, 0] = -Infinity, [0, 0] = NaN.                  *)
(***************************************************************************)
RECURSIVE GCD(_, _)
GCD(a, b) == IF b = 0 THEN a ELSE GCD(b, a % b)

AbsInt(i) == IF i < 0 THEN -i ELSE i

SignInt(i) == IF i < 0 THEN -1 ELSE IF i > 0 THEN 1 ELSE 0

Num(n, d) ==
    IF d = 0 THEN [n |-> SignInt(n), d |-> 0]
    ELSE LET g == GCD(AbsInt(n), AbsInt(d))
             s == IF d < 0 THEN -1 ELSE 1
         IN  [n |-> s * (n \div g), d |-> s * (d \div g)]

Int2Num(i) == [n |-> i, d |-> 1]

NaN == [n |-> 0, d |-> 0]

IsNaN(a) == a.n = 0 /\ a.d = 0

IsFinite(a) == a.d > 0

NumAdd(a, b) ==
    IF a.d = 0 /\ b.d = 0
    THEN (IF a.n = b.n THEN a ELSE NaN)
    ELSE IF a.d = 0 THEN a
    ELSE IF b.d = 0 THEN b
    ELSE LET g == GCD(a.d, b.d)
         IN  Num(a.n * (b.d \div g) + b.n * (a.d \div g), (a.d \div g) * b.d)

NumNeg(a) == [n |-> -a.n, d |-> a.d]

NumSub(a, b) == NumAdd(a, NumNeg(b))

NumDiv(a, b) ==
    LET g1 == GCD(AbsInt(a.n), AbsInt(b.n))
        g2 == GCD(a.d, b.d)
        an == IF g1 = 0 THEN a.n ELSE a.n \div g1
        bn == IF g1 = 0 THEN b.n ELSE b.n \div g1
        ad == IF g2 = 0 THEN a.d ELSE a.d \div g2
        bd == IF g2 = 0 THEN b.d ELSE b.d \div g2
    IN  Num(an * bd, ad * bn)

NumMul(a, b) == NumDiv(a, [n |-> b.d, d |-> b.n])

NumAbs(a) == [n |-> AbsInt(a.n), d |-> a.d]

\* a > 0, a < 0, a === 0 (all false for NaN)
NumPos(a) == a.n > 0

NumNegative(a) == a.n < 0

NumIsZero(a) == a.n = 0 /\ a.d # 0

\* a >= b for finite a, b
NumGeq(a, b) == a.n * b.d >= b.n * a.d

NumLeq(a, b) == NumGeq(b, a)

(***************************************************************************)
(* Indicator computations of the market data effect.                       *)
(* KlineData is [timestamp, open, high, low, close, volume]; sequences are  *)
(* 1-based, so the code's index i is i + 1 here.                            *)
(***************************************************************************)
\* new Date(ms): the instant with that epoch-millisecond value
Date(ms) == [time |-> ms]

SmaFastPeriod == 20

SmaSlowPeriod == 50

RsiPeriod == 14

\* inner loop: sum of data[i - j].close for j = 0 .. n - 1 (i is 1-based)
RECURSIVE SmaWindowSum(_, _, _, _)
SmaWindowSum(data, i, n, j) ==
    IF j >= n THEN Int2Num(0)
    ELSE NumAdd(data[i - j].close, SmaWindowSum(data, i, n, j + 1))

\* mutant of SmaFirstIndex: the loop starts one candle late (i = n)
SmaFirstIndexLate(n) == n + 1

\* the code's first loop index (n - 1), 1-based
SmaFirstIndex(n) == n

\* one pushed point {x, y} of the SMA loops
SmaPoint(data, i, n) ==
    [x |-> Date(data[i].timestamp),
     y |-> NumDiv(SmaWindowSum(data, i, n, 0), Int2Num(n))]

\* outer loop: for (i = n - 1; i < data.length; i++) push a point
SMA(data, n) ==
    LET first == SmaFirstIndex(n)
        count == IF Len(data) >= first THEN Len(data) - first + 1 ELSE 0
    IN  [k \in 1..count |-> SmaPoint(data, first + k - 1, n)]

\* changes.push(data[i].close - data[i - 1].close), i = 1 .. length - 1
PriceChanges(data) ==
    [i \in 1..(Len(data) - 1) |-> NumSub(data[i + 1].close, data[i].close)]

\* seed loop over the first `period` changes: [gain, loss] sums
RECURSIVE RsiSeedSums(_, _, _)
RsiSeedSums(changes, period, i) ==
    IF i > period THEN [gain |-> Int2Num(0), loss |-> Int2Num(0)]
    ELSE LET rest == RsiSeedSums(changes, period, i + 1)
         IN  IF NumPos(changes[i])
             THEN [gain |-> NumAdd(changes[i], rest.gain), loss |-> rest.loss]
             ELSE [gain |-> rest.gain, loss |-> NumAdd(NumAbs(changes[i]), rest.loss)]

\* mutant of RsiLossDivisor: no substitution for a zero average loss
RsiLossDivisorUnguarded(avgLoss) == avgLoss

\* avgLoss === 0 ? 0.001 : avgLoss
RsiLossDivisor(avgLoss) == IF NumIsZero(avgLoss) THEN Num(1, 1000) ELSE avgLoss

\* rs = avgGain / divisor; rsiValue = 100 - 100 / (1 + rs)
RsiValue(avgGain, avgLoss) ==
    LET rs == NumDiv(avgGain, RsiLossDivisor(avgLoss))
    IN  NumSub(Int2Num(100), NumDiv(Int2Num(100), NumAdd(Int2Num(1), rs)))

\* Wilder smoothing of one average: (avg * (period - 1) + x) / period
RsiSmooth(avg, x, period) ==
    NumDiv(NumAdd(NumMul(avg, Int2Num(period - 1)), x), Int2Num(period))

\* steady-state loop: for (i = period; i < changes.length; i++), i 1-based
RECURSIVE RsiRest(_, _, _, _, _, _)
RsiRest(data, changes, period, i, avgGain, avgLoss) ==
    IF i > Len(changes) THEN << >>
    ELSE LET change == changes[i]
             gain == IF NumPos(change) THEN change ELSE Int2Num(0)
             loss == IF NumNegative(change) THEN NumAbs(change) ELSE Int2Num(0)
             g == RsiSmooth(avgGain, gain, period)
             l == RsiSmooth(avgLoss, loss, period)
         IN  << [x |-> Date(data[i + 1].timestamp), y |-> RsiValue(g, l)] >>
             \o RsiRest(data, changes, period, i + 1, g, l)

calculateRSI(data, period) ==
    IF Len(data) <= period THEN << >>
    ELSE LET changes == PriceChanges(data)
             sums == RsiSeedSums(changes, period, 1)
             avgGain == NumDiv(sums.gain, Int2Num(period))
             avgLoss == NumDiv(sums.loss, Int2Num(period))
         IN  << [x |-> Date(data[period + 1].timestamp), y |-> RsiValue(avgGain, avgLoss)] >>
             \o RsiRest(data, changes, period, period + 1, avgGain, avgLoss)

(***************************************************************************)
(* Component state.                                                        *)
(***************************************************************************)
VARIABLES
    phase,            \* "new" (not yet rendered), "mounted", "unmounted"
    selectedSymbol,   \* useState("BTCUSDT")
    selectedInterval, \* useState("1m")
    wsRef,            \* useState<WebSocket | null>: 0 is null, else a socket id
    cleanupWsRef,     \* the wsRef value captured by the registered effect cleanup
    isConnected,      \* useState(false)
    currentPrice,     \* useState<number | null>: Null or a number
    candlestickData,  \* chart series state
    volumeData,
    rsiData,
    sma20Data,
    sma50Data,
    marketData,       \* `data` of useQuery in the last render: Null is undefined
    sockets,          \* every WebSocket constructed so far, by id
    queries,          \* the query cache, by queryKey
    now,              \* the exchange's clock (candle periods elapsed)
    chartKey,         \* history: queryKey of the marketData the charts show
    priceSrc          \* history: where currentPrice came from

vars == << phase, selectedSymbol, selectedInterval, wsRef, cleanupWsRef,
           isConnected, currentPrice, candlestickData, volumeData, rsiData,
           sma20Data, sma50Data, marketData, sockets, queries, now,
           chartKey, priceSrc >>

\* null / undefined, and a present value, of an optional variable
Null == [defined |-> FALSE]

Some(v) == [defined |-> TRUE, value |-> v]

\* no queryKey (history variables)
NoKey == << >>

\* model bounds
MaxSockets == 2

MaxTime == 1

HistBase == 2

MaxRsiLen == 16

MaxSmaLen == 51

MaxSpikes == 1

Symbols == {"BTCUSDT", "ETHUSDT"}

Intervals == {"1m", "5m"}

Keys == Symbols \X Intervals

\* queryKey: ["marketData", selectedSymbol, selectedInterval]
QueryKey(symbol, interval) == << symbol, interval >>

\* a query of the cache.  dataAt: the exchange time of the cached payload
\* (-1: no data); fetchStatus: "idle", "fetching" (queryFn awaits fetch) or
\* "waiting" (retry delay running); servedAt: the exchange time at which the
\* running request is answered; retryTimer: the armed retry delay in ms;
\* attempts (history): calls of queryFn in the current or last fetch
NoQuery ==
    [dataAt |-> -1, fetchStatus |-> "idle", failureCount |-> 0,
     isError |-> FALSE, servedAt |-> -1, retryTimer |-> 0, attempts |-> 0]

NoPriceSrc == [from |-> "none", key |-> NoKey, at |-> -1]

Init ==
    /\ phase = "new"
    /\ selectedSymbol = "BTCUSDT"
    /\ selectedInterval = "1m"
    /\ wsRef = 0
    /\ cleanupWsRef = 0
    /\ isConnected = FALSE
    /\ currentPrice = Null
    /\ candlestickData = << >>
    /\ volumeData = << >>
    /\ rsiData = << >>
    /\ sma20Data = << >>
    /\ sma50Data = << >>
    /\ marketData = Null
    /\ sockets = << >>
    /\ queries = [k \in Keys |-> NoQuery]
    /\ now = 0
    /\ chartKey = NoKey
    /\ priceSrc = NoPriceSrc

(***************************************************************************)
(* The market data effect (useEffect on [marketData]).                     *)
(***************************************************************************)
OhlcOf(data) ==
    [i \in 1..Len(data) |->
        [x |-> Date(data[i].timestamp),
         y |-> << data[i].open, data[i].high, data[i].low, data[i].close >>]]

VolumeOf(data) ==
    [i \in 1..Len(data) |->
        [x |-> Date(data[i].timestamp),
         y |-> data[i].volume,
         fillColor |-> IF NumGeq(data[i].close, data[i].open)
                       THEN "#26a69a" ELSE "#ef5350"]]

\* the effect body for a defined marketData; key and at feed the history variables
ProcessMarketData(data, key, at) ==
    /\ candlestickData' = OhlcOf(data)
    /\ volumeData' = VolumeOf(data)
    /\ sma20Data' = SMA(data, SmaFastPeriod)
    /\ sma50Data' = SMA(data, SmaSlowPeriod)
    /\ rsiData' = calculateRSI(data, RsiPeriod)
    /\ chartKey' = key
    /\ IF Len(data) > 0
       THEN /\ currentPrice' = Some(data[Len(data)].close)
            /\ priceSrc' = [from |-> "fetch", key |-> key, at |-> at]
       ELSE UNCHANGED << currentPrice, priceSrc >>

(***************************************************************************)
(* Indicator inputs: candle sequences fed to the indicator computations.   *)
(***************************************************************************)
\* candle period of an interval, in ms
IntervalMs(interval) == IF interval = "1m" THEN 60 * 1000 ELSE 5 * 60 * 1000

MinuteMs == IntervalMs("1m")

Kline(index, prevClose, close) ==
    [timestamp |-> index * MinuteMs,
     open |-> prevClose,
     high |-> IF NumGeq(close, prevClose) THEN close ELSE prevClose,
     low |-> IF NumGeq(close, prevClose) THEN prevClose ELSE close,
     close |-> close,
     volume |-> Int2Num(1)]

InputData == IF marketData.defined THEN marketData.value ELSE << >>

AppendKline(data, close) ==
    Append(data, Kline(Len(data) + 1,
                       IF Len(data) = 0 THEN close ELSE data[Len(data)].close,
                       close))

\* closes of the RSI inputs: two price levels, and steady rises by one step
RsiLevels == {Int2Num(0), Int2Num(1)}

RsiRises == {Num(1, 1000), Int2Num(1), Int2Num(5)}

AllAtLevels(data) == \A i \in 1..Len(data) : data[i].close \in RsiLevels

RisesBy(data, step) ==
    \A i \in 1..(Len(data) - 1) : NumSub(data[i + 1].close, data[i].close) = step

\* calculateRSI(marketData, 14) applied to the payload extended by one candle
ApplyRSI(data) ==
    /\ marketData' = Some(data)
    /\ rsiData' = calculateRSI(data, RsiPeriod)
    /\ UNCHANGED << phase, selectedSymbol, selectedInterval, wsRef, cleanupWsRef,
                    isConnected, currentPrice, candlestickData, volumeData,
                    sma20Data, sma50Data, sockets, queries, now, chartKey,
                    priceSrc >>

RsiFeedLevel(close) ==
    /\ Len(InputData) < MaxRsiLen
    /\ AllAtLevels(InputData)
    /\ ApplyRSI(AppendKline(InputData, close))

RsiFeedRise(step) ==
    /\ Len(InputData) < MaxRsiLen
    /\ Len(InputData) >= 1
    /\ RisesBy(InputData, step)
    /\ ApplyRSI(AppendKline(InputData, NumAdd(InputData[Len(InputData)].close, step)))

RsiNext ==
    \/ \E close \in RsiLevels : RsiFeedLevel(close)
    \/ \E step \in RsiRises : RsiFeedRise(step)

RsiSpec == Init /\ [][RsiNext]_vars

\* closes of the SMA inputs: a ramp 10, 11, 12, ... with a few outliers
SmaRampStart == Int2Num(10)

SmaSpikeCloses == {Int2Num(3), Int2Num(70)}

OnRamp(data, i) ==
    IF i = 1 THEN data[1].close = SmaRampStart
    ELSE data[i].close = NumAdd(data[i - 1].close, Int2Num(1))

SpikeCount(data) == Cardinality({i \in 1..Len(data) : ~OnRamp(data, i)})

\* the two SMA loops applied to the payload extended by one candle
ApplySMA(data) ==
    /\ marketData' = Some(data)
    /\ sma20Data' = SMA(data, SmaFastPeriod)
    /\ sma50Data' = SMA(data, SmaSlowPeriod)
    /\ UNCHANGED << phase, selectedSymbol, selectedInterval, wsRef, cleanupWsRef,
                    isConnected, currentPrice, candlestickData, volumeData,
                    rsiData, sockets, queries, now, chartKey, priceSrc >>

SmaFeedRamp ==
    /\ Len(InputData) < MaxSmaLen
    /\ ApplySMA(AppendKline(InputData,
                            IF Len(InputData) = 0 THEN SmaRampStart
                            ELSE NumAdd(InputData[Len(InputData)].close, Int2Num(1))))

SmaFeedSpike(close) ==
    /\ Len(InputData) < MaxSmaLen
    /\ SpikeCount(InputData) < MaxSpikes
    /\ ApplySMA(AppendKline(InputData, close))

SmaNext ==
    \/ SmaFeedRamp
    \/ \E close \in SmaSpikeCloses : SmaFeedSpike(close)

SmaSpec == Init /\ [][SmaNext]_vars

(***************************************************************************)
(* Properties of the indicator computations.                               *)
(***************************************************************************)
AllCloses(data, P(_)) == \A i \in 1..Len(data) : P(data[i].close)

NonNegativeFinite(c) == IsFinite(c) /\ c.n >= 0

InUnitRange(y) ==
    /\ IsFinite(y)
    /\ NumGeq(y, Int2Num(0))
    /\ NumLeq(y, Int2Num(100))

\* C7: for every candle sequence with more than `period` candles and
\* non-negative finite closes, calculateRSI emits one point per candle from
\* index `period` on, each with a finite value in [0, 100] (never NaN or
\* infinite), also when the average loss, the average gain or both are 0.
C7_RsiInRange ==
    (marketData.defined /\ AllCloses(marketData.value, NonNegativeFinite)) =>
        /\ Len(rsiData) = IF Len(marketData.value) > RsiPeriod
                          THEN Len(marketData.value) - RsiPeriod ELSE 0
        /\ \A k \in 1..Len(rsiData) : InUnitRange(rsiData[k].y)

\* C7 witness: flat prices (average gain and average loss both 0) over more
\* than period + 1 candles; both emitted values are the number 0
C7_FlatPricesWitness ==
    /\ marketData.defined
    /\ Len(marketData.value) = RsiPeriod + 2
    /\ \A i \in 1..Len(marketData.value) : marketData.value[i].close = Int2Num(1)
    /\ Len(rsiData) = 2
    /\ \A k \in 1..2 : rsiData[k].y = Int2Num(0)

\* C8: for a candle sequence whose first 15 price changes are all positive
\* and of equal magnitude D, for every D > 0, every RSI value emitted is
\* saturated near 100 (at least 99.9), whatever the size of D.
C8_RsiSaturatesOnRise ==
    \A step \in RsiRises :
        (/\ marketData.defined
         /\ Len(marketData.value) > RsiPeriod + 1
         /\ NumPos(step)
         /\ RisesBy(marketData.value, step)) =>
            \A k \in 1..Len(rsiData) : NumGeq(rsiData[k].y, Num(999, 10))

\* sum of the closes at (1-based) indices lo .. hi
RECURSIVE CloseSum(_, _, _)
CloseSum(data, lo, hi) ==
    IF lo > hi THEN Int2Num(0)
    ELSE NumAdd(CloseSum(data, lo, hi - 1), data[hi].close)

\* series holds exactly the trailing-n means of data, one per index n .. N
IsTrailingMean(series, data, n) ==
    /\ Len(series) = IF Len(data) >= n THEN Len(data) - n + 1 ELSE 0
    /\ \A k \in 1..Len(series) :
          LET i == k + n - 1
          IN  /\ series[k].x = Date(data[i].timestamp)
              /\ NumMul(series[k].y, Int2Num(n)) = CloseSum(data, i - n + 1, i)

\* C9: for n in {20, 50} and any series of N candles, the SMA(n) series has
\* exactly one point for each index i with n-1 <= i < N and none before
\* (empty when N < n); the point for index i carries candle i's timestamp and
\* its value is the arithmetic mean of the n closes at indices i-n+1 .. i.
C9_SmaIsTrailingMean ==
    marketData.defined =>
        /\ IsTrailingMean(sma20Data, marketData.value, SmaFastPeriod)
        /\ IsTrailingMean(sma50Data, marketData.value, SmaSlowPeriod)

\* C9 witness: closes 10 .. 29 give the single SMA(20) point 19.5 at the
\* 20th candle and no SMA(50) point
C9_RampWitness ==
    /\ marketData.defined
    /\ Len(marketData.value) = SmaFastPeriod
    /\ \A i \in 1..SmaFastPeriod : marketData.value[i].close = Int2Num(9 + i)
    /\ sma20Data = << [x |-> Date(SmaFastPeriod * MinuteMs), y |-> Num(39, 2)] >>
    /\ sma50Data = << >>

(***************************************************************************)
(* The exchange: the historical REST payload and the kline stream.         *)
(***************************************************************************)
\* last traded price of a symbol at exchange time t (distinct per symbol and t)
BasePrice(symbol) == IF symbol = "BTCUSDT" THEN 100 ELSE 50

Price(symbol, t) == Num(2 * BasePrice(symbol) + t, 2)

\* close of the candle with (1-based) index i: the first HistBase candles
\* are history at the base price, candle HistBase + t trades at Price(t)
CandleClose(symbol, i) == Price(symbol, IF i > HistBase THEN i - HistBase ELSE 0)

\* the candles the REST endpoint returns at exchange time t, oldest first
Klines(key, t) ==
    [i \in 1..(HistBase + t) |->
        LET close == CandleClose(key[1], i)
            prev == IF i = 1 THEN close ELSE CandleClose(key[1], i - 1)
        IN  [timestamp |-> i * IntervalMs(key[2]),
             open |-> prev,
             high |-> IF NumGeq(close, prev) THEN close ELSE prev,
             low |-> IF NumGeq(close, prev) THEN prev ELSE close,
             close |-> close,
             volume |-> Int2Num(1)]]

\* decimal strings are sequences of one-character strings
Digits == << "0", "1", "2", "3", "4", "5", "6", "7", "8", "9" >>

IsDigit(c) == \E d \in 1..10 : Digits[d] = c

DigitValue(c) == (CHOOSE d \in 1..10 : Digits[d] = c) - 1

RECURSIVE NatToString(_)
NatToString(n) ==
    IF n < 10 THEN << Digits[n + 1] >>
    ELSE Append(NatToString(n \div 10), Digits[(n % 10) + 1])

\* the exchange prints a non-negative price with two decimals
FormatPrice(a) ==
    LET cents == (a.n * 100) \div a.d
    IN  NatToString(cents \div 100)
        \o << ".", Digits[((cents \div 10) % 10) + 1], Digits[(cents % 10) + 1] >>

\* number of leading digit characters of s from position i on
RECURSIVE DigitRun(_, _)
DigitRun(s, i) ==
    IF i <= Len(s) /\ IsDigit(s[i]) THEN 1 + DigitRun(s, i + 1) ELSE 0

RECURSIVE DigitsValue(_, _, _)
DigitsValue(s, i, count) ==
    IF count = 0 THEN 0
    ELSE DigitsValue(s, i, count - 1) * 10 + DigitValue(s[i + count - 1])

RECURSIVE Pow10(_)
Pow10(k) == IF k = 0 THEN 1 ELSE 10 * Pow10(k - 1)

\* parseFloat on an unsigned decimal string: the longest numeric prefix, NaN
\* when there is none
parseFloat(s) ==
    LET ip == DigitRun(s, 1)
        hasDot == ip + 1 <= Len(s) /\ s[ip + 1] = "."
        fp == IF hasDot THEN DigitRun(s, ip + 2) ELSE 0
    IN  IF ip = 0 /\ fp = 0 THEN NaN
        ELSE Num(DigitsValue(s, 1, ip) * Pow10(fp) + DigitsValue(s, ip + 2, fp),
                 Pow10(fp))

\* selectedSymbol.toLowerCase(), and the stream the exchange serves under
\* that name
toLowerCase(symbol) == IF symbol = "BTCUSDT" THEN "btcusdt" ELSE "ethusdt"

StreamSymbol(name) == CHOOSE symbol \in Symbols : toLowerCase(symbol) = name

\* event.data of the frames a kline stream can deliver at exchange time t:
\* kline frames for the running candle (x: the candle has closed), a frame
\* without k, and a frame that is not JSON
StreamFrames(name, interval, t) ==
    { [json |-> TRUE,
       k |-> Some([t |-> (HistBase + t) * IntervalMs(interval),
                   c |-> FormatPrice(Price(StreamSymbol(name), t)),
                   x |-> x])] : x \in BOOLEAN }
    \cup { [json |-> TRUE, k |-> Null], [json |-> FALSE, k |-> Null] }

(***************************************************************************)
(* fetchMarketData and the query (useQuery with retry: 3, retryDelay: 1000) *)
(***************************************************************************)
\* responses of GET /api/market that carry no candles: an empty payload and
\* an error status
FailedResponses ==
    { [ok |-> TRUE, body |-> << >>], [ok |-> FALSE, body |-> << >>] }

\* fetchMarketData after the awaited fetch: throws on a non-OK response and
\* on an empty payload, else returns the payload
fetchMarketData(response) ==
    IF ~response.ok THEN [threw |-> TRUE, data |-> << >>]
    ELSE IF Len(response.body) = 0 THEN [threw |-> TRUE, data |-> << >>]
    ELSE [threw |-> FALSE, data |-> response.body]

Retry == 3

RetryDelay == 1000

\* mutant of ShouldRetry: one retry too many
ShouldRetryInclusive(failureCount) == failureCount <= Retry

\* retry: 3 -- a failed queryFn is retried while failureCount < retry
ShouldRetry(failureCount) == failureCount < Retry

\* a fetch starts: queryFn is called for the first time
StartFetch(q) ==
    [q EXCEPT !.fetchStatus = "fetching", !.failureCount = 0,
              !.isError = IF q.dataAt < 0 THEN FALSE ELSE @,
              !.servedAt = now, !.retryTimer = 0, !.attempts = 1]

\* the observer attaches to a query (mount, or queryKey change): it fetches
\* when the query is idle and has no data or its data is stale (staleTime)
ObserverAttach(q, stale) ==
    IF q.fetchStatus = "idle" /\ (q.dataAt < 0 \/ stale) THEN StartFetch(q) ELSE q

\* refetch(): a running fetch of a query without data is joined, otherwise a
\* fetch starts (a running one is cancelled and restarted)
refetch(q) ==
    IF q.fetchStatus # "idle" /\ q.dataAt < 0 THEN q ELSE StartFetch(q)

\* queryFn resolved with a payload of exchange time q.servedAt
QuerySuccess(q) ==
    [q EXCEPT !.dataAt = q.servedAt, !.fetchStatus = "idle", !.failureCount = 0,
              !.isError = FALSE, !.servedAt = -1, !.attempts = 0]

\* queryFn threw: retry after retryDelay, or surface the error
QueryFailure(q) ==
    IF ShouldRetry(q.failureCount)
    THEN [q EXCEPT !.failureCount = @ + 1, !.fetchStatus = "waiting",
                   !.retryTimer = RetryDelay, !.servedAt = -1]
    ELSE [q EXCEPT !.fetchStatus = "idle", !.isError = TRUE, !.servedAt = -1]

\* the retry delay has elapsed: queryFn is called again
QueryRetry(q) ==
    [q EXCEPT !.fetchStatus = "fetching", !.retryTimer = 0, !.servedAt = now,
              !.attempts = @ + 1]

\* `data` of useQuery for a query: undefined until a payload is cached
QueryData(key, q) == IF q.dataAt < 0 THEN Null ELSE Some(Klines(key, q.dataAt))

(***************************************************************************)
(* The component: renders, effects and event handlers.                     *)
(***************************************************************************)
CurrentKey == QueryKey(selectedSymbol, selectedInterval)

chartVars == << candlestickData, volumeData, rsiData, sma20Data, sma50Data,
                currentPrice, chartKey, priceSrc >>

\* WebSocket.close(): an open or connecting socket starts closing
CloseSocket(socks, id) ==
    [socks EXCEPT ![id].readyState =
        IF @ \in {"CONNECTING", "OPEN"} THEN "CLOSING" ELSE @]

\* mutant of CloseExisting: the effect opens the new socket without closing
\* the one in wsRef
CloseExistingSkipped(socks, ref) == socks

\* if (wsRef) { wsRef.close(); ... } with the wsRef value `ref` of a closure
CloseExisting(socks, ref) == IF ref # 0 THEN CloseSocket(socks, ref) ELSE socks

\* new WebSocket(wsUrl) with its four handlers; the handlers close over the
\* candlestickData of the render that ran the effect
NewSocket(symbol, interval, candles) ==
    [stream |-> toLowerCase(symbol), interval |-> interval,
     readyState |-> "CONNECTING", sawCandles |-> Len(candles) > 0]

\* the market data effect of a render whose marketData is `next`: it runs
\* when marketData changed, and returns early while it is undefined
MarketDataEffect(next, key, at) ==
    IF next # marketData /\ next.defined
    THEN ProcessMarketData(next.value, key, at)
    ELSE UNCHANGED chartVars

\* the WebSocket effect of a render with the given selection: the cleanup of
\* the previous run (when there is one), then the effect body
WebSocketEffect(symbol, interval, hasCleanup) ==
    LET cleaned == IF hasCleanup THEN CloseExisting(sockets, cleanupWsRef)
                   ELSE sockets
        closed == CloseExisting(cleaned, wsRef)
    IN  /\ sockets' = Append(closed, NewSocket(symbol, interval, candlestickData))
        /\ wsRef' = Len(sockets) + 1
        /\ cleanupWsRef' = wsRef
        /\ isConnected' = IF (hasCleanup /\ cleanupWsRef # 0) \/ wsRef # 0
                          THEN FALSE ELSE isConnected

\* first render and its effects
Mount ==
    /\ phase = "new"
    /\ phase' = "mounted"
    /\ queries' = [queries EXCEPT ![CurrentKey] = ObserverAttach(@, FALSE)]
    /\ marketData' = QueryData(CurrentKey, queries[CurrentKey])
    /\ MarketDataEffect(marketData', CurrentKey, queries[CurrentKey].dataAt)
    /\ WebSocketEffect(selectedSymbol, selectedInterval, FALSE)
    /\ UNCHANGED << selectedSymbol, selectedInterval, now >>

\* the render after a selection change: the observer moves to the new
\* queryKey, then both effects run
SelectionRender(symbol, interval, stale) ==
    LET key == QueryKey(symbol, interval)
    IN  /\ queries' = [queries EXCEPT ![key] = ObserverAttach(@, stale)]
        /\ marketData' = QueryData(key, queries[key])
        /\ MarketDataEffect(marketData', key, queries[key].dataAt)
        /\ WebSocketEffect(symbol, interval, TRUE)

handleSymbolChange(value, stale) ==
    /\ phase = "mounted"
    /\ value # selectedSymbol
    /\ Len(sockets) < MaxSockets
    /\ selectedSymbol' = value
    /\ SelectionRender(value, selectedInterval, stale)
    /\ UNCHANGED << phase, selectedInterval, now >>

handleIntervalChange(value, stale) ==
    /\ phase = "mounted"
    /\ value # selectedInterval
    /\ Len(sockets) < MaxSockets
    /\ selectedInterval' = value
    /\ SelectionRender(selectedSymbol, value, stale)
    /\ UNCHANGED << phase, selectedSymbol, now >>

\* the Refresh button: onClick={() => refetch()}
Refresh ==
    /\ phase = "mounted"
    /\ queries' = [queries EXCEPT ![CurrentKey] = refetch(@)]
    /\ UNCHANGED << phase, selectedSymbol, selectedInterval, wsRef, cleanupWsRef,
                    isConnected, marketData, sockets, now >>
    /\ UNCHANGED chartVars

\* teardown: the registered cleanup of the WebSocket effect runs
Unmount ==
    /\ phase = "mounted"
    /\ phase' = "unmounted"
    /\ sockets' = CloseExisting(sockets, cleanupWsRef)
    /\ UNCHANGED << selectedSymbol, selectedInterval, wsRef, cleanupWsRef,
                    isConnected, marketData, queries, now >>
    /\ UNCHANGED chartVars

\* the awaited fetch of a running queryFn settles with `response`
FetchSettles(key, response) ==
    /\ queries[key].fetchStatus = "fetching"
    /\ LET result == fetchMarketData(response)
       IN  IF result.threw
           THEN /\ queries' = [queries EXCEPT ![key] = QueryFailure(@)]
                /\ UNCHANGED marketData
                /\ UNCHANGED chartVars
           ELSE /\ queries' = [queries EXCEPT ![key] = QuerySuccess(@)]
                /\ IF phase = "mounted" /\ key = CurrentKey
                   THEN /\ marketData' = Some(result.data)
                        /\ MarketDataEffect(marketData', key, queries[key].servedAt)
                   ELSE /\ UNCHANGED marketData
                        /\ UNCHANGED chartVars
    /\ UNCHANGED << phase, selectedSymbol, selectedInterval, wsRef, cleanupWsRef,
                    isConnected, sockets, now >>

\* the REST endpoint answers a running request with the candles
FetchSucceeds(key) ==
    /\ queries[key].fetchStatus = "fetching"
    /\ FetchSettles(key, [ok |-> TRUE, body |-> Klines(key, queries[key].servedAt)])

\* the REST endpoint answers a running request with an error status or with
\* an empty payload
FetchFails(key, response) ==
    /\ response \in FailedResponses
    /\ FetchSettles(key, response)

\* the retry delay of a failed attempt elapses
RetryTimerFires(key) ==
    /\ queries[key].fetchStatus = "waiting"
    /\ queries' = [queries EXCEPT ![key] = QueryRetry(@)]
    /\ UNCHANGED << phase, selectedSymbol, selectedInterval, wsRef, cleanupWsRef,
                    isConnected, marketData, sockets, now >>
    /\ UNCHANGED chartVars

\* a state setter called from a socket handler: no effect once unmounted
SetIsConnected(value) ==
    isConnected' = IF phase = "mounted" THEN value ELSE isConnected

\* ws.onopen
WsOnOpen(id) ==
    /\ sockets[id].readyState = "CONNECTING"
    /\ sockets' = [sockets EXCEPT ![id].readyState = "OPEN"]
    /\ SetIsConnected(TRUE)
    /\ UNCHANGED << phase, selectedSymbol, selectedInterval, wsRef, cleanupWsRef,
                    marketData, queries, now >>
    /\ UNCHANGED chartVars

\* the connection of a socket ends: ws.onerror when it failed, then ws.onclose
WsOnClose(id, failed) ==
    /\ sockets[id].readyState # "CLOSED"
    /\ sockets' = [sockets EXCEPT ![id].readyState = "CLOSED"]
    /\ SetIsConnected(FALSE)
    /\ UNCHANGED << phase, selectedSymbol, selectedInterval, wsRef, cleanupWsRef,
                    marketData, queries, now >>
    /\ UNCHANGED chartVars

\* ws.onmessage
WsOnMessage(id, frame) ==
    /\ sockets[id].readyState = "OPEN"
    /\ IF frame.json /\ frame.k.defined
       THEN LET k == frame.k.value
                closePrice == parseFloat(k.c)
            IN  /\ IF phase = "mounted"
                   THEN /\ currentPrice' = Some(closePrice)
                        /\ priceSrc' = [from |-> "stream",
                                        key |-> QueryKey(StreamSymbol(sockets[id].stream),
                                                         sockets[id].interval),
                                        at |-> now]
                   ELSE UNCHANGED << currentPrice, priceSrc >>
                /\ IF k.x /\ sockets[id].sawCandles
                   THEN queries' = [queries EXCEPT ![CurrentKey] = refetch(@)]
                   ELSE UNCHANGED queries
       ELSE UNCHANGED << currentPrice, priceSrc, queries >>
    /\ UNCHANGED << phase, selectedSymbol, selectedInterval, wsRef, cleanupWsRef,
                    isConnected, marketData, sockets, now, candlestickData,
                    volumeData, rsiData, sma20Data, sma50Data, chartKey >>

\* the exchange moves on by one candle period
Tick ==
    /\ now < MaxTime
    /\ now' = now + 1
    /\ UNCHANGED << phase, selectedSymbol, selectedInterval, wsRef, cleanupWsRef,
                    isConnected, marketData, sockets, queries >>
    /\ UNCHANGED chartVars

\* the REST endpoint answers every request; the transport is arbitrary
Next ==
    \/ Mount
    \/ Unmount
    \/ \E value \in Symbols, stale \in BOOLEAN : handleSymbolChange(value, stale)
    \/ \E value \in Intervals, stale \in BOOLEAN : handleIntervalChange(value, stale)
    \/ Refresh
    \/ \E key \in Keys : FetchSucceeds(key)
    \/ \E id \in DOMAIN sockets : WsOnOpen(id)
    \/ \E id \in DOMAIN sockets, failed \in BOOLEAN : WsOnClose(id, failed)
    \/ \E id \in DOMAIN sockets :
          \E frame \in StreamFrames(sockets[id].stream, sockets[id].interval, now) :
             WsOnMessage(id, frame)
    \/ Tick

Spec == Init /\ [][Next]_vars

\* the REST endpoint may fail any request; the transport stays silent
RetryNext ==
    \/ Mount
    \/ Unmount
    \/ \E value \in Symbols, stale \in BOOLEAN : handleSymbolChange(value, stale)
    \/ \E value \in Intervals, stale \in BOOLEAN : handleIntervalChange(value, stale)
    \/ Refresh
    \/ \E key \in Keys : FetchSucceeds(key)
    \/ \E key \in Keys, response \in FailedResponses : FetchFails(key, response)
    \/ \E key \in Keys : RetryTimerFires(key)

RetrySpec == Init /\ [][RetryNext]_vars

\* Spec with the scheduling the runtime guarantees: a request the endpoint
\* answers is delivered, a connection attempt the exchange accepts fires
\* onopen, and a close handshake the client started completes
CloseCompletes == \E id \in DOMAIN sockets :
    /\ sockets[id].readyState = "CLOSING"
    /\ WsOnClose(id, FALSE)

FairSpec ==
    /\ Spec
    /\ WF_vars(\E key \in Keys : FetchSucceeds(key))
    /\ WF_vars(\E id \in DOMAIN sockets : WsOnOpen(id))
    /\ WF_vars(CloseCompletes)

(***************************************************************************)
(* Properties of the component.                                            *)
(***************************************************************************)
\* close() has not been called on the socket and its connection has not ended
Unclosed(s) == s.readyState \in {"CONNECTING", "OPEN"}

UnclosedSockets == {id \in DOMAIN sockets : Unclosed(sockets[id])}

\* C1: for any sequence of selection changes, at most one live-feed socket
\* is un-closed at any moment, and it is the socket of the current
\* selection: every earlier socket had close() called on it by the time the
\* next one was created.
C1_AtMostOneUnclosedSocket ==
    /\ Cardinality(UnclosedSockets) <= 1
    /\ \A id \in UnclosedSockets : id = wsRef

\* C1 witness: a selection change closed the open socket of the previous
\* selection, and the socket of the new selection is open
C1_ReplacedSocketWitness ==
    /\ phase = "mounted"
    /\ Len(sockets) = 2
    /\ sockets[1].readyState = "CLOSING"
    /\ sockets[2].readyState = "OPEN"
    /\ wsRef = 2

\* C2: once the component is torn down, the socket of the then-current
\* selection has had close() called on it, so no live-feed socket remains
\* un-closed.
C2_NoUnclosedSocketAfterTeardown ==
    phase = "unmounted" => UnclosedSockets = {}

\* C3, as stated: a fetch that keeps failing is attempted at most 3 times.
C3_AtMostThreeAttempts ==
    \A key \in Keys : queries[key].attempts <= 3

\* C3, amended: a fetch that keeps failing is attempted at most 4 times in
\* total (the first attempt and 3 retries), with the fixed delay of 1000 ms
\* before each retry; the error is surfaced only after the 4th failed
\* attempt, and then no further attempt is scheduled.
C3_AtMostFourAttempts ==
    \A key \in Keys :
        LET q == queries[key]
        IN  /\ q.attempts <= Retry + 1
            /\ q.fetchStatus = "waiting" =>
                  /\ q.retryTimer = RetryDelay
                  /\ q.attempts <= Retry
            /\ q.fetchStatus # "waiting" => q.retryTimer = 0
            /\ (q.fetchStatus = "idle" /\ q.isError) => q.attempts = Retry + 1

\* C3 witness: a fetch has failed 4 times and its error is surfaced
C3_ExhaustedWitness ==
    \E key \in Keys :
        /\ queries[key].fetchStatus = "idle"
        /\ queries[key].isError
        /\ queries[key].attempts = Retry + 1
        /\ queries[key].dataAt < 0

\* the transport of the active selection's socket has closed or failed
\* without close() having been called on it
TransportLost ==
    /\ phase = "mounted"
    /\ wsRef # 0
    /\ sockets[wsRef].readyState = "CLOSED"

\* C4: whenever the transport of the active selection closes or errors while
\* the selection stays active, a reconnect attempt is eventually made (the
\* socket in wsRef is connecting or open again); the feed is never abandoned.
C4_ReconnectsAfterTransportLoss ==
    TransportLost ~> (phase # "mounted" \/ wsRef \in UnclosedSockets)

\* C5: in every state after a selection change, the held candle series, the
\* indicator series and the displayed last price contain no value that
\* originates from another selection's fetch or socket.
C5_NoStateFromOtherSelection ==
    phase = "mounted" =>
        /\ chartKey # CurrentKey =>
              /\ candlestickData = << >>
              /\ volumeData = << >>
              /\ sma20Data = << >>
              /\ sma50Data = << >>
              /\ rsiData = << >>
        /\ priceSrc.key # CurrentKey => ~currentPrice.defined

\* C6: a fetch result never replaces the price of a newer stream event of the
\* same selection: when the displayed price passes from a stream event to a
\* fetch result, the fetched payload is at least as recent as that event.
C6_FetchNeverReplacesNewerStreamPrice ==
    [][(/\ priceSrc.from = "stream"
        /\ priceSrc'.from = "fetch"
        /\ priceSrc'.key = priceSrc.key) => priceSrc'.at >= priceSrc.at]_vars

IsClosedKline(frame) == frame.json /\ frame.k.defined /\ frame.k.value.x

\* C10: for every selection, including the one active at mount, once the
\* candle series is seeded with a fetch result of that selection, each stream
\* message of the current socket whose closed flag is true triggers a refetch.
C10_ClosedCandleTriggersRefetch ==
    [][\A frame \in StreamFrames(toLowerCase(selectedSymbol), selectedInterval, now) :
          (/\ phase = "mounted"
           /\ wsRef # 0
           /\ Len(candlestickData) > 0
           /\ chartKey = CurrentKey
           /\ IsClosedKline(frame)
           /\ WsOnMessage(wsRef, frame))
          => queries'[CurrentKey].fetchStatus = "fetching"]_vars

\* the socket has fired onopen and has not since fired onclose or onerror
\* (close() is never called on the socket in wsRef while it stays in wsRef)
Live(id) == sockets[id].readyState = "OPEN"

\* C11: while the component is mounted, the connection flag isConnected
\* describes only the socket of the current selection: it is true exactly
\* when that socket has fired onopen and has not since fired onclose or
\* onerror, so a callback delivered late from a superseded socket never
\* leaves the flag disagreeing with the current socket.
C11_FlagDescribesCurrentSocket ==
    (phase = "mounted" /\ wsRef # 0) => (isConnected <=> Live(wsRef))

====
